---- MODULE Spec2Model ----
(***************************************************************************)
(* Derivation schemata based on BIP-43-related standards                   *)
(* (hd/src/schemata.rs): DerivationBlockchain and Bip43 parsing and         *)
(* rendering, reconstruction of a scheme from a derivation path, path       *)
(* construction and the descriptor-type compatibility table.               *)
(*                                                                         *)
(* Strings are sequences of one-character strings.  A ChildNumber is a      *)
(* record [hardened, index]; HardenedIndex and UnhardenedIndex are the bare *)
(* index number.  Option and Result values are tagged records.              *)
(***************************************************************************)
EXTENDS Integers, Sequences, FiniteSets, TLC

VARIABLES call, ret

vars == <<call, ret>>

(* ------------------------------ bounds -------------------------------- *)

\* Small index values 0..MaxIndex used for accounts, blockchains, purposes.
MaxIndex == 2

\* Longest derivation path handed to Bip43::with.
MaxPathLen == 5

(* ------------------------- Option and Result -------------------------- *)

None == [tag |-> "None"]

Some(v) == [tag |-> "Some", val |-> v]

Ok(v) == [tag |-> "Ok", val |-> v]

Err(e) == [tag |-> "Err", err |-> e]

IsSome(o) == o.tag = "Some"

IsOk(r) == r.tag = "Ok"

(* ------------------------------ strings ------------------------------- *)

LowerAlpha == <<"a","b","c","d","e","f","g","h","i","j","k","l","m",
                "n","o","p","q","r","s","t","u","v","w","x","y","z">>

UpperAlpha == <<"A","B","C","D","E","F","G","H","I","J","K","L","M",
                "N","O","P","Q","R","S","T","U","V","W","X","Y","Z">>

DigitChars == <<"0","1","2","3","4","5","6","7","8","9">>

\* char::to_lowercase on the characters of the model's alphabet
LowerChar(c) ==
    IF \E k \in 1..Len(UpperAlpha) : UpperAlpha[k] = c
    THEN LowerAlpha[CHOOSE k \in 1..Len(UpperAlpha) : UpperAlpha[k] = c]
    ELSE c

UpperChar(c) ==
    IF \E k \in 1..Len(LowerAlpha) : LowerAlpha[k] = c
    THEN UpperAlpha[CHOOSE k \in 1..Len(LowerAlpha) : LowerAlpha[k] = c]
    ELSE c

\* str::to_lowercase
to_lowercase(s) == [k \in 1..Len(s) |-> LowerChar(s[k])]

\* str::starts_with
starts_with(s, p) == Len(s) >= Len(p) /\ SubSeq(s, 1, Len(p)) = p

\* str::strip_prefix
strip_prefix(s, p) ==
    IF starts_with(s, p) THEN Some(SubSeq(s, Len(p) + 1, Len(s))) ELSE None

\* Option::or_else, with the alternative already evaluated (it is pure)
or_else(o, alt) == IF IsSome(o) THEN o ELSE alt

(* ------------------------- numbers and indexes ------------------------ *)

\* The largest index of a ChildNumber, 2^31 - 1, written as a sum whose
\* terms stay below 2^31
MaxChildIndex == (2^30 - 1) + 2^30

IsDigit(c) == \E k \in 1..Len(DigitChars) : DigitChars[k] = c

DigitVal(c) == (CHOOSE k \in 1..Len(DigitChars) : DigitChars[k] = c) - 1

RECURSIVE DigitsValue(_)
\* value of an all-digit string, or -1 when it exceeds MaxChildIndex
DigitsValue(s) ==
    IF s = <<>> THEN 0
    ELSE LET hi == DigitsValue(SubSeq(s, 1, Len(s) - 1))
             d  == DigitVal(s[Len(s)])
         IN IF hi = -1 \/ hi > (MaxChildIndex - d) \div 10
            THEN -1
            ELSE hi * 10 + d

\* u32::from_str followed by the range check of ChildNumber::from_*_idx:
\* an optional "+", then one or more decimal digits, the value below 2^31.
\* Every caller discards which bip32::Error it was.
index_from_str(s) ==
    LET body == IF s # <<>> /\ s[1] = "+" THEN Tail(s) ELSE s
    IN IF body = <<>> \/ \E k \in 1..Len(body) : ~IsDigit(body[k])
       THEN Err("bip32::Error")
       ELSE IF DigitsValue(body) = -1
            THEN Err("bip32::Error")
            ELSE Ok(DigitsValue(body))

RECURSIVE u32_to_string(_)
\* decimal rendering of an unsigned integer
u32_to_string(n) ==
    IF n < 10 THEN <<DigitChars[n + 1]>>
    ELSE u32_to_string(n \div 10) \o <<DigitChars[(n % 10) + 1]>>

Hardened(i) == [hardened |-> TRUE, index |-> i]

Normal(i) == [hardened |-> FALSE, index |-> i]

\* ChildNumber::from_str: a trailing ' or h marks a hardened index; the
\* number must be a u32 below 2^31
ChildNumber_from_str(s) ==
    LET is_hardened == s # <<>> /\ s[Len(s)] \in {"'", "h"}
        num == index_from_str(IF is_hardened THEN SubSeq(s, 1, Len(s) - 1) ELSE s)
    IN IF ~IsOk(num) THEN num
       ELSE Ok(IF is_hardened THEN Hardened(num.val) ELSE Normal(num.val))

\* HardenedIndex::try_from(ChildNumber)
HardenedIndex_try_from(cn) ==
    IF cn.hardened THEN Ok(cn.index) ELSE Err("WrongHardenedFlag")

\* HardenedIndex::from_str: a decimal index below 2^31, with or without the
\* hardened marker
HardenedIndex_from_str(s) ==
    LET marked == s # <<>> /\ s[Len(s)] \in {"'", "h"}
    IN index_from_str(IF marked THEN SubSeq(s, 1, Len(s) - 1) ELSE s)

\* Display of a HardenedIndex: the number followed by the hardened marker
HardenedIndex_Display(i) == u32_to_string(i) \o <<"h">>

(* ------------------------ DerivationBlockchain ------------------------ *)

Bitcoin == [tag |-> "Bitcoin"]

Testnet == [tag |-> "Testnet"]

Custom(i) == [tag |-> "Custom", index |-> i]

S_bitcoin == <<"b","i","t","c","o","i","n">>

S_testnet == <<"t","e","s","t","n","e","t">>

\* DerivationBlockchain::child_number
child_number(b) ==
    CASE b = Bitcoin -> Hardened(0)
      [] b = Testnet -> Hardened(1)
      [] OTHER       -> Hardened(b.index)

\* Mutant of DerivationBlockchain_from_str: the hardened flag of the parsed
\* number is not looked at
DerivationBlockchain_from_str_AnyFlag(s) ==
    LET parsed == ChildNumber_from_str(s)
        lower  == to_lowercase(s)
    IN CASE lower = S_bitcoin -> Ok(Bitcoin)
         [] lower = S_testnet -> Ok(Testnet)
         [] OTHER ->
            IF IsOk(parsed) THEN Ok(Custom(parsed.val.index))
            ELSE Err([kind |-> "InvalidBlockchainName", name |-> lower])

\* <DerivationBlockchain as FromStr>::from_str: the match is on the pair
\* (lower-cased input, ChildNumber parse of the input as given)
DerivationBlockchain_from_str(s) ==
    LET parsed == ChildNumber_from_str(s)
        lower  == to_lowercase(s)
    IN CASE lower = S_bitcoin -> Ok(Bitcoin)
         [] lower = S_testnet -> Ok(Testnet)
         [] OTHER ->
            IF IsOk(parsed)
            THEN IF parsed.val.hardened
                 THEN LET index == HardenedIndex_try_from(parsed.val)
                      IN IF IsOk(index) THEN Ok(Custom(index.val))
                         ELSE [tag |-> "Panic"]
                 ELSE Err([kind |-> "UnhardenedBlockchainIndex",
                           index |-> parsed.val.index])
            ELSE Err([kind |-> "InvalidBlockchainName", name |-> lower])

\* Display of DerivationBlockchain
DerivationBlockchain_Display(b) ==
    CASE b = Bitcoin -> S_bitcoin
      [] b = Testnet -> S_testnet
      [] OTHER       -> HardenedIndex_Display(b.index)

(* -------------------------------- Bip43 ------------------------------- *)

Bip44 == [variant |-> "Bip44"]

Bip84 == [variant |-> "Bip84"]

Bip49 == [variant |-> "Bip49"]

Bip86 == [variant |-> "Bip86"]

Bip45 == [variant |-> "Bip45"]

Bip48Nested == [variant |-> "Bip48Nested"]

Bip48Native == [variant |-> "Bip48Native"]

Bip87 == [variant |-> "Bip87"]

Bip43Generic(p) == [variant |-> "Bip43", purpose |-> p]

NamedVariants ==
    {Bip44, Bip84, Bip49, Bip86, Bip45, Bip48Nested, Bip48Native, Bip87}

S_bip == <<"b","i","p">>

S_m == <<"m","/">>

S_44 == <<"4","4">>

S_84 == <<"8","4">>

S_49 == <<"4","9">>

S_86 == <<"8","6">>

S_45 == <<"4","5">>

S_87 == <<"8","7">>

S_48 == <<"4","8">>

S_43 == <<"4","3">>

S_h == <<"h">>

S_slash == <<"/">>

S_48slashes == <<"4","8","/","/">>

S_bip48slashes == <<"b","i","p","4","8","/","/">>

S_48nested == <<"4","8","-","n","e","s","t","e","d">>

S_48native == <<"4","8","-","n","a","t","i","v","e">>

S_bip43 == <<"b","i","p","4","3">>

S_bip43slash == <<"b","i","p","4","3","/">>

\* Display of Bip43, alternate form ("{:#}"); the generic variant declares
\* no alternate form and renders as in the canonical one
Bip43_DisplayAlt(v) ==
    CASE v = Bip44       -> S_m \o S_44 \o S_h
      [] v = Bip84       -> S_m \o S_84 \o S_h
      [] v = Bip49       -> S_m \o S_49 \o S_h
      [] v = Bip86       -> S_m \o S_86 \o S_h
      [] v = Bip45       -> S_m \o S_45 \o S_h
      [] v = Bip48Nested -> S_m \o S_48 \o S_h \o <<"/","/","1","h">>
      [] v = Bip48Native -> S_m \o S_48 \o S_h \o <<"/","/","2","h">>
      [] v = Bip87       -> S_m \o S_87 \o S_h
      [] OTHER           -> S_bip43slash \o HardenedIndex_Display(v.purpose)

\* Mutant of Bip43_Display: the alternate form is rendered where the
\* canonical one is asked for
Bip43_Display_Alternate(v) == Bip43_DisplayAlt(v)

\* Display of Bip43, canonical form ("{}")
Bip43_Display(v) ==
    CASE v = Bip44       -> S_bip \o S_44
      [] v = Bip84       -> S_bip \o S_84
      [] v = Bip49       -> S_bip \o S_49
      [] v = Bip86       -> S_bip \o S_86
      [] v = Bip45       -> S_bip \o S_45
      [] v = Bip48Nested -> S_bip \o S_48nested
      [] v = Bip48Native -> S_bip \o S_48native
      [] v = Bip87       -> S_bip \o S_87
      [] OTHER           -> S_bip43slash \o HardenedIndex_Display(v.purpose)

\* <Bip43 as FromStr>::from_str; the match arms are tried in source order
Bip43_from_str(str) ==
    LET s   == to_lowercase(str)
        bip == or_else(strip_prefix(s, S_bip), strip_prefix(s, S_m))
    IN CASE bip = Some(S_44) -> Ok(Bip44)
         [] bip = Some(S_84) -> Ok(Bip84)
         [] bip = Some(S_49) -> Ok(Bip49)
         [] bip = Some(S_86) -> Ok(Bip86)
         [] bip = Some(S_45) -> Ok(Bip45)
         [] IsSome(bip) /\ starts_with(bip.val, S_48slashes) ->
            LET index == strip_prefix(s, S_bip48slashes)
                script_type == IF IsSome(index)
                               THEN HardenedIndex_from_str(index.val)
                               ELSE Err("None")
            IN IF IsOk(script_type) /\ script_type.val = 1 THEN Ok(Bip48Nested)
               ELSE IF IsOk(script_type) /\ script_type.val = 2 THEN Ok(Bip48Native)
               ELSE Err([kind |-> "InvalidBip48Scheme"])
         [] bip = Some(S_48nested) -> Ok(Bip48Nested)
         [] bip = Some(S_48native) -> Ok(Bip48Native)
         [] bip = Some(S_87) -> Ok(Bip87)
         [] bip = None /\ starts_with(s, S_bip43) ->
            LET purpose == strip_prefix(s, S_bip43slash)
            IN IF IsSome(purpose)
               THEN LET idx == HardenedIndex_from_str(purpose.val)
                    IN IF IsOk(idx) THEN Ok(Bip43Generic(idx.val))
                       ELSE Err([kind |-> "InvalidPurposeIndex",
                                 text |-> purpose.val])
               ELSE Err([kind |-> "InvalidBip43Scheme"])
         [] OTHER -> Err([kind |-> "UnrecognizedBipScheme"])

(* ------------------------ DerivationStandard ------------------------- *)

\* Iterator::nth on the elements an iterator has not yet yielded: skips n
\* elements and yields the next one
Iterator_nth(rest, n) == IF Len(rest) > n THEN Some(rest[n + 1]) ELSE None

\* Mutant of Bip43_with: the first segment's hardened flag is not checked
Bip43_with_AnyFlag(derivation) ==
    IF derivation = <<>> THEN None
    ELSE LET first == Head(derivation).index
         IN CASE first = 44 -> Some(Bip44)
              [] first = 84 -> Some(Bip84)
              [] first = 49 -> Some(Bip49)
              [] first = 86 -> Some(Bip86)
              [] first = 45 -> Some(Bip45)
              [] first = 87 -> Some(Bip87)
              [] first = 48 -> None
              [] OTHER -> Some(Bip43Generic(first))

\* Bip43::with
Bip43_with(derivation) ==
    IF derivation = <<>> THEN None
    ELSE LET first == HardenedIndex_try_from(Head(derivation))
             iter  == Tail(derivation)
         IN IF ~IsOk(first) THEN None
            ELSE LET nth    == Iterator_nth(iter, 3)
                     fourth == IF IsSome(nth)
                               THEN Some(HardenedIndex_try_from(nth.val))
                               ELSE None
                     is(n)  == IsSome(fourth) /\ IsOk(fourth.val)
                                  /\ fourth.val.val = n
                 IN CASE first.val = 44 -> Some(Bip44)
                      [] first.val = 84 -> Some(Bip84)
                      [] first.val = 49 -> Some(Bip49)
                      [] first.val = 86 -> Some(Bip86)
                      [] first.val = 45 -> Some(Bip45)
                      [] first.val = 87 -> Some(Bip87)
                      [] first.val = 48 ->
                         IF is(1) THEN Some(Bip48Nested)
                         ELSE IF is(2) THEN Some(Bip48Native)
                         ELSE None
                      [] OTHER -> Some(Bip43Generic(first.val))

\* Bip43::purpose
purpose(self) ==
    CASE self = Bip44 -> Some(44)
      [] self = Bip84 -> Some(84)
      [] self = Bip49 -> Some(49)
      [] self = Bip86 -> Some(86)
      [] self = Bip45 -> Some(45)
      [] self \in {Bip48Nested, Bip48Native} -> Some(48)
      [] self = Bip87 -> Some(87)
      [] OTHER -> Some(self.purpose)

\* DerivationPath::extend: a new path, the receiver is left as it was
DerivationPath_extend(self, path) == self \o path

\* Bip43::to_origin_derivation
to_origin_derivation(self, blockchain) ==
    LET p     == purpose(self)
        path0 == IF IsSome(p) THEN <<Hardened(p.val)>> ELSE <<>>
    IN path0 \o <<child_number(blockchain)>>

\* Bip43::to_account_derivation: the value of derivation.extend(&path) is
\* dropped and the origin derivation itself is returned
to_account_derivation(self, account_index, blockchain) ==
    LET path0 == <<account_index>>
        path  == IF self = Bip48Native THEN path0 \o <<Hardened(2)>>
                 ELSE IF self = Bip48Nested THEN path0 \o <<Hardened(1)>>
                 ELSE path0
        derivation == to_origin_derivation(self, blockchain)
        dropped    == DerivationPath_extend(derivation, path)
    IN derivation

\* Mutant of to_key_derivation: the case segment is never appended
to_key_derivation_NoCase(self, account_index, blockchain, index, case) ==
    DerivationPath_extend(
        to_account_derivation(self, account_index, blockchain),
        <<Normal(index)>>)

\* Bip43::to_key_derivation; case is an Option<UnhardenedIndex>
to_key_derivation(self, account_index, blockchain, index, case) ==
    LET d0 == to_account_derivation(self, account_index, blockchain)
        d1 == DerivationPath_extend(d0, <<Normal(index)>>)
    IN IF IsSome(case)
       THEN DerivationPath_extend(d1, <<Normal(case.val)>>)
       ELSE d1

DescriptorTypes ==
    {"Bare", "Sh", "Pkh", "Wpkh", "Wsh", "ShWsh", "ShWpkh", "ShSortedMulti",
     "WshSortedMulti", "ShWshSortedMulti", "Tr"}

\* Mutant of check_descriptor_type: the table is looked up by purpose, so
\* the generic variant inherits the entries of the named one
check_descriptor_type_ByPurpose(self, descriptor_type) ==
    <<purpose(self).val, descriptor_type>> \in
        {<<44, "Pkh">>, <<84, "Wpkh">>, <<49, "ShWpkh">>, <<86, "Tr">>,
         <<45, "ShSortedMulti">>, <<87, "ShSortedMulti">>,
         <<87, "ShWshSortedMulti">>, <<87, "WshSortedMulti">>,
         <<48, "ShWshSortedMulti">>, <<48, "WshSortedMulti">>}

\* Bip43::check_descriptor_type
check_descriptor_type(self, descriptor_type) ==
    CASE self = Bip44 /\ descriptor_type = "Pkh" -> TRUE
      [] self = Bip84 /\ descriptor_type = "Wpkh" -> TRUE
      [] self = Bip49 /\ descriptor_type = "ShWpkh" -> TRUE
      [] self = Bip86 /\ descriptor_type = "Tr" -> TRUE
      [] self = Bip45 /\ descriptor_type = "ShSortedMulti" -> TRUE
      [] self = Bip87 /\ descriptor_type = "ShSortedMulti" -> TRUE
      [] self = Bip87 /\ descriptor_type = "ShWshSortedMulti" -> TRUE
      [] self = Bip87 /\ descriptor_type = "WshSortedMulti" -> TRUE
      [] self = Bip48Nested /\ descriptor_type = "ShWshSortedMulti" -> TRUE
      [] self = Bip48Native /\ descriptor_type = "WshSortedMulti" -> TRUE
      [] OTHER -> FALSE

(* ------------------------------ inputs -------------------------------- *)

SmallIdx == 0..MaxIndex

PurposeConstants == {44, 84, 49, 86, 45, 48, 87}

\* Bip43 values: every named variant, and the generic one with small
\* purposes, the largest purpose and purposes equal to named constants
Bip43Values ==
    NamedVariants
      \cup {Bip43Generic(p) : p \in SmallIdx \cup {44, 48, MaxChildIndex}}

Blockchains == {Bitcoin, Testnet} \cup {Custom(i) : i \in SmallIdx}

AccountIndexes == {Hardened(i) : i \in SmallIdx} \cup {Normal(i) : i \in SmallIdx}

CaseOptions == {None} \cup {Some(i) : i \in SmallIdx}

\* Derivation paths: any first segment of interest, then up to
\* MaxPathLen - 1 further segments
FirstSegments ==
    LET idx == SmallIdx \cup PurposeConstants \cup {MaxChildIndex}
    IN {Hardened(i) : i \in idx} \cup {Normal(i) : i \in idx}

RestSegments == {Hardened(i) : i \in SmallIdx} \cup {Normal(1), Normal(2)}

RECURSIVE SeqsUpTo(_, _)
\* all sequences over S of length at most n
SeqsUpTo(S, n) ==
    IF n = 0 THEN {<<>>}
    ELSE LET shorter == SeqsUpTo(S, n - 1)
         IN shorter \cup {<<x>> \o t : x \in S, t \in {u \in shorter : Len(u) = n - 1}}

Paths ==
    {<<>>} \cup {<<f>> \o r : f \in FirstSegments,
                             r \in SeqsUpTo(RestSegments, MaxPathLen - 1)}

RECURSIVE CaseVariants(_)
\* every upper/lower-case spelling of a string
CaseVariants(s) ==
    IF s = <<>> THEN {<<>>}
    ELSE {<<c>> \o t : c \in {LowerChar(Head(s)), UpperChar(Head(s))},
                       t \in CaseVariants(Tail(s))}

S_2pow31 == <<"2","1","4","7","4","8","3","6","4","8">>

S_2pow32 == <<"4","2","9","4","9","6","7","2","9","6">>

\* index texts: numbers (small, the purpose constants 44 and 48, the
\* largest index, 2^31 and 2^32), junk and nothing, each bare and with a marker
NumberTexts ==
    {u32_to_string(n) :
        n \in SmallIdx \cup {44, 48, MaxChildIndex}}
      \cup {S_2pow31, S_2pow32}
      \cup {<<>>, <<"x">>, <<"+", "1">>}

IndexTexts == {n \o m : n \in NumberTexts, m \in {<<>>, <<"h">>, <<"'">>}}

BlockchainInputs ==
    UNION {CaseVariants(s) :
             s \in {S_bitcoin, S_testnet, S_bitcoin \o <<"s">>, <<"b","t","c">>}
                     \cup IndexTexts}

PurposeTexts == {S_44, S_84, S_49, S_86, S_45, S_87, S_48, S_43}

Bip43Bodies ==
    PurposeTexts
      \cup {n \o S_h : n \in PurposeTexts}
      \cup {S_48slashes \o i : i \in IndexTexts}
      \cup {S_48 \o S_h \o <<"/", "/">> \o i : i \in IndexTexts}
      \cup {S_48nested, S_48native, <<"4","8","-","o","t","h","e","r">>}
      \cup {S_43 \o S_slash \o i : i \in IndexTexts}
      \cup {S_43 \o i : i \in IndexTexts}

Bip43Inputs ==
    UNION {CaseVariants(pre \o body) :
             pre \in {<<>>, S_bip, S_m}, body \in Bip43Bodies}

Pending == [tag |-> "Pending"]

(* --------------------------- state machine ---------------------------- *)

\* One call is issued with arguments drawn from the input sets; the action
\* of the called operation computes its result.
Init ==
    /\ ret = Pending
    /\ \/ \E s \in BlockchainInputs :
            call = [op |-> "DerivationBlockchain::from_str", s |-> s]
       \/ \E b \in Blockchains :
            call = [op |-> "DerivationBlockchain::fmt", self |-> b]
       \/ \E s \in Bip43Inputs :
            call = [op |-> "Bip43::from_str", s |-> s]
       \/ \E v \in Bip43Values, alt \in BOOLEAN :
            call = [op |-> "Bip43::fmt", self |-> v, alternate |-> alt]
       \/ \E d \in Paths :
            call = [op |-> "Bip43::with", derivation |-> d]
       \/ \E v \in Bip43Values :
            call = [op |-> "Bip43::purpose", self |-> v]
       \/ \E v \in Bip43Values, b \in Blockchains :
            call = [op |-> "Bip43::to_origin_derivation", self |-> v,
                    blockchain |-> b]
       \/ \E v \in Bip43Values, a \in AccountIndexes, b \in Blockchains :
            call = [op |-> "Bip43::to_account_derivation", self |-> v,
                    account_index |-> a, blockchain |-> b]
       \/ \E v \in Bip43Values, a \in AccountIndexes, b \in Blockchains,
             i \in SmallIdx, c \in CaseOptions :
            call = [op |-> "Bip43::to_key_derivation", self |-> v,
                    account_index |-> a, blockchain |-> b,
                    index |-> i, case |-> c]
       \/ \E v \in Bip43Values, d \in DescriptorTypes :
            call = [op |-> "Bip43::check_descriptor_type", self |-> v,
                    descriptor_type |-> d]

Called(name) == call.op = name /\ ret = Pending

Returned(name) == call.op = name /\ ret # Pending

ParseBlockchain ==
    /\ Called("DerivationBlockchain::from_str")
    /\ ret' = DerivationBlockchain_from_str(call.s)
    /\ UNCHANGED call

DisplayBlockchain ==
    /\ Called("DerivationBlockchain::fmt")
    /\ ret' = Ok(DerivationBlockchain_Display(call.self))
    /\ UNCHANGED call

ParseBip43 ==
    /\ Called("Bip43::from_str")
    /\ ret' = Bip43_from_str(call.s)
    /\ UNCHANGED call

DisplayBip43 ==
    /\ Called("Bip43::fmt")
    /\ ret' = Ok(IF call.alternate THEN Bip43_DisplayAlt(call.self)
                                   ELSE Bip43_Display(call.self))
    /\ UNCHANGED call

With ==
    /\ Called("Bip43::with")
    /\ ret' = Bip43_with(call.derivation)
    /\ UNCHANGED call

Purpose ==
    /\ Called("Bip43::purpose")
    /\ ret' = purpose(call.self)
    /\ UNCHANGED call

ToOriginDerivation ==
    /\ Called("Bip43::to_origin_derivation")
    /\ ret' = Ok(to_origin_derivation(call.self, call.blockchain))
    /\ UNCHANGED call

ToAccountDerivation ==
    /\ Called("Bip43::to_account_derivation")
    /\ ret' = Ok(to_account_derivation(call.self, call.account_index,
                                       call.blockchain))
    /\ UNCHANGED call

ToKeyDerivation ==
    /\ Called("Bip43::to_key_derivation")
    /\ ret' = Ok(to_key_derivation(call.self, call.account_index,
                                   call.blockchain, call.index, call.case))
    /\ UNCHANGED call

CheckDescriptorType ==
    /\ Called("Bip43::check_descriptor_type")
    /\ ret' = Ok(check_descriptor_type(call.self, call.descriptor_type))
    /\ UNCHANGED call

Next ==
    \/ ParseBlockchain
    \/ DisplayBlockchain
    \/ ParseBip43
    \/ DisplayBip43
    \/ With
    \/ Purpose
    \/ ToOriginDerivation
    \/ ToAccountDerivation
    \/ ToKeyDerivation
    \/ CheckDescriptorType

Spec == Init /\ [][Next]_vars

(* ------------------------------- claims ------------------------------- *)

\* The extra segment to_account_derivation is documented to append
ScriptTypeSegment(self) ==
    IF self = Bip48Nested THEN <<Hardened(1)>>
    ELSE IF self = Bip48Native THEN <<Hardened(2)>>
    ELSE <<>>

\* C1: to_account_derivation(S, a, B) is to_origin_derivation(S, B) followed
\* by the segment a, followed by hardened 1 for Bip48Nested, hardened 2 for
\* Bip48Native and nothing more for every other variant.
C1_AccountDerivationExtendsOrigin ==
    Returned("Bip43::to_account_derivation") =>
        ret.val = to_origin_derivation(call.self, call.blockchain)
                    \o <<call.account_index>> \o ScriptTypeSegment(call.self)

\* C2: for a path whose first segment is hardened 48, Bip43::with is decided
\* by the fourth segment (index 3) only: hardened 1 gives Bip48Nested,
\* hardened 2 gives Bip48Native, anything else (or no such segment) nothing.
C2_WithBip48DecidedByFourthSegment ==
    Returned("Bip43::with") /\ call.derivation # <<>>
        /\ call.derivation[1] = Hardened(48) =>
        LET d == call.derivation
        IN ret = IF Len(d) >= 4 /\ d[4] = Hardened(1) THEN Some(Bip48Nested)
                 ELSE IF Len(d) >= 4 /\ d[4] = Hardened(2) THEN Some(Bip48Native)
                 ELSE None

\* C3: a string beginning with "bip43" (in any case) parses by the generic
\* rule: "bip43/<p>h" gives Bip43{purpose: p}, a missing "/" gives
\* InvalidBip43Scheme, an unparsable payload gives InvalidPurposeIndex with
\* the payload; never UnrecognizedBipScheme.
C3_Bip43PrefixParsesAsGeneric ==
    Returned("Bip43::from_str") /\ starts_with(to_lowercase(call.s), S_bip43) =>
        LET payload == strip_prefix(to_lowercase(call.s), S_bip43slash)
        IN IF ~IsSome(payload)
           THEN ret = Err([kind |-> "InvalidBip43Scheme"])
           ELSE IF IsOk(HardenedIndex_from_str(payload.val))
           THEN ret = Ok(Bip43Generic(HardenedIndex_from_str(payload.val).val))
           ELSE ret = Err([kind |-> "InvalidPurposeIndex", text |-> payload.val])

SinglePurposeVariants == {Bip44, Bip84, Bip49, Bip86, Bip45, Bip87}

\* C4: for each single-purpose named variant, the canonical string "bipN",
\* the alternate display form "m/Nh" and every upper/lower-case spelling
\* of the two parse to that variant.
C4_CanonicalAndAliasParse ==
    Returned("Bip43::from_str") =>
        \A v \in SinglePurposeVariants :
            to_lowercase(call.s) \in {Bip43_Display(v), Bip43_DisplayAlt(v)}
                => ret = Ok(v)

\* The residual of a Bip43 input: what follows the leading "bip" or "m/"
Residual(str) ==
    or_else(strip_prefix(to_lowercase(str), S_bip),
            strip_prefix(to_lowercase(str), S_m))

\* C5: when the residual after the leading "bip" or "m/" begins "48//", the
\* text after it is read as an index: 1 gives Bip48Nested, 2 gives
\* Bip48Native, anything else InvalidBip48Scheme, whichever prefix was used.
C5_Bip48SlashesParse ==
    Returned("Bip43::from_str") /\ IsSome(Residual(call.s))
        /\ starts_with(Residual(call.s).val, S_48slashes) =>
        LET text == strip_prefix(Residual(call.s).val, S_48slashes).val
            idx  == HardenedIndex_from_str(text)
        IN ret = IF IsOk(idx) /\ idx.val = 1 THEN Ok(Bip48Nested)
                 ELSE IF IsOk(idx) /\ idx.val = 2 THEN Ok(Bip48Native)
                 ELSE Err([kind |-> "InvalidBip48Scheme"])

\* What C6 expects of DerivationBlockchain parsing, with the text that an
\* InvalidBlockchainName error carries left open
BlockchainParseExpected(s, name) ==
    LET parsed == ChildNumber_from_str(s)
    IN IF to_lowercase(s) = S_bitcoin THEN Ok(Bitcoin)
       ELSE IF to_lowercase(s) = S_testnet THEN Ok(Testnet)
       ELSE IF IsOk(parsed) /\ parsed.val.hardened
       THEN Ok(Custom(parsed.val.index))
       ELSE IF IsOk(parsed)
       THEN Err([kind |-> "UnhardenedBlockchainIndex", index |-> parsed.val.index])
       ELSE Err([kind |-> "InvalidBlockchainName", name |-> name])

\* C6 as stated: "bitcoin"/"testnet" in any case give Bitcoin/Testnet, a
\* hardened number i gives Custom(i), a non-hardened number i gives
\* UnhardenedBlockchainIndex(i), anything else InvalidBlockchainName carrying
\* the input string as given; no input panics.
C6_BlockchainParseCarriesInputAsGiven ==
    Returned("DerivationBlockchain::from_str") =>
        ret = BlockchainParseExpected(call.s, call.s)

\* C6 amended: the same, except that InvalidBlockchainName carries the
\* lower-cased input string.
C6_BlockchainParseCarriesLowercased ==
    Returned("DerivationBlockchain::from_str") =>
        ret = BlockchainParseExpected(call.s, to_lowercase(call.s))

C6_Witness ==
    /\ Returned("DerivationBlockchain::from_str")
    /\ call.s = <<"B", "t", "c">>
    /\ ret = Err([kind |-> "InvalidBlockchainName", name |-> <<"b", "t", "c">>])

\* C7: for every named Bip43 variant v, parse(render(v)) = v and
\* render(parse(render(v))) = render(v); for Bitcoin and Testnet,
\* parse(render(b)) = b.
C7_RenderParseRoundTrip ==
    /\ Returned("Bip43::fmt") /\ ~call.alternate /\ call.self \in NamedVariants =>
          /\ Bip43_from_str(ret.val) = Ok(call.self)
          /\ Bip43_Display(Bip43_from_str(ret.val).val) = ret.val
    /\ Returned("DerivationBlockchain::fmt") /\ call.self \in {Bitcoin, Testnet} =>
          DerivationBlockchain_from_str(ret.val) = Ok(call.self)

C7_Witness ==
    /\ Returned("Bip43::fmt") /\ ~call.alternate
    /\ call.self = Bip48Native
    /\ ret.val = <<"b","i","p","4","8","-","n","a","t","i","v","e">>
    /\ Bip43_from_str(ret.val) = Ok(Bip48Native)

CompatiblePairs ==
    {<<Bip44, "Pkh">>, <<Bip84, "Wpkh">>, <<Bip49, "ShWpkh">>, <<Bip86, "Tr">>,
     <<Bip45, "ShSortedMulti">>, <<Bip87, "ShSortedMulti">>,
     <<Bip87, "ShWshSortedMulti">>, <<Bip87, "WshSortedMulti">>,
     <<Bip48Nested, "ShWshSortedMulti">>, <<Bip48Native, "WshSortedMulti">>}

\* C8: check_descriptor_type is true exactly for the ten listed pairs and
\* false for every other pair, in particular for the generic variant with
\* any purpose.
C8_DescriptorTypeTable ==
    Returned("Bip43::check_descriptor_type") =>
        /\ ret.val = (<<call.self, call.descriptor_type>> \in CompatiblePairs)
        /\ call.self.variant = "Bip43" => ret.val = FALSE

C8_Witness ==
    /\ Returned("Bip43::check_descriptor_type")
    /\ call.self = Bip43Generic(44)
    /\ call.descriptor_type = "Pkh"
    /\ ret.val = FALSE

\* The named variant of a single-purpose constant
SinglePurposeVariant(p) ==
    CASE p = 44 -> Bip44 [] p = 84 -> Bip84 [] p = 49 -> Bip49
      [] p = 86 -> Bip86 [] p = 45 -> Bip45 [] p = 87 -> Bip87

\* C9: Bip43::with gives nothing for an empty path or a non-hardened first
\* segment; the named variant for a hardened first segment 44, 84, 49, 86,
\* 45 or 87 whatever follows; the generic variant for any other hardened
\* first segment but 48; and whenever it gives a value, that value's
\* purpose is the first segment's index.
C9_WithByFirstSegment ==
    Returned("Bip43::with") =>
        LET d == call.derivation
        IN IF d = <<>> \/ ~d[1].hardened THEN ret = None
           ELSE /\ d[1].index \in {44, 84, 49, 86, 45, 87} =>
                      ret = Some(SinglePurposeVariant(d[1].index))
                /\ d[1].index \notin PurposeConstants =>
                      ret = Some(Bip43Generic(d[1].index))
                /\ IsSome(ret) => purpose(ret.val) = Some(d[1].index)

C9_Witness ==
    /\ Returned("Bip43::with")
    /\ call.derivation = <<Hardened(44), Hardened(0), Hardened(0)>>
    /\ ret = Some(Bip44)
    /\ purpose(ret.val) = Some(44)

\* C10: to_key_derivation(S, a, B, i, c) is to_account_derivation(S, a, B)
\* extended with the normal segment i and then with the normal segment c
\* exactly when c is supplied: one segment longer than the account path
\* without c, two with it, the account path unchanged as its prefix.
C10_KeyDerivationExtendsAccount ==
    Returned("Bip43::to_key_derivation") =>
        LET account == to_account_derivation(call.self, call.account_index,
                                             call.blockchain)
            tail == IF IsSome(call.case)
                    THEN <<Normal(call.index), Normal(call.case.val)>>
                    ELSE <<Normal(call.index)>>
        IN /\ ret.val = account \o tail
           /\ Len(ret.val) = Len(account) + (IF IsSome(call.case) THEN 2 ELSE 1)
           /\ SubSeq(ret.val, 1, Len(account)) = account

C10_Witness ==
    /\ Returned("Bip43::to_key_derivation")
    /\ call.self = Bip84 /\ call.blockchain = Testnet
    /\ call.index = 2 /\ call.case = Some(1)
    /\ Len(ret.val) = 4
    /\ ret.val[3] = Normal(2) /\ ret.val[4] = Normal(1)

====
